---- MODULE Spec2Model ----
(***************************************************************************)
(* A model of the download manager core: DownloadManager (the registry,    *)
(* the priority queue, the queue processor thread), DownloadEngine (worker *)
(* threads, the monitor thread, stop events, temp files), the scheduler    *)
(* heap and the SQLite store.                                              *)
(*                                                                         *)
(* Python objects are modelled by value: a dict is a function whose DOMAIN *)
(* is its key set, a list is a sequence, a DownloadTask object lives in    *)
(* `tasks` under its id for as long as anything references it (the         *)
(* registry, a queue entry, a thread).  Each method is an operator from a  *)
(* world record to a world record, so that a method which calls other      *)
(* methods is the composition the code performs; an action applies one     *)
(* whole call (or one step of a thread) to the current world.              *)
(***************************************************************************)
EXTENDS Integers, Sequences, FiniteSets, TLC

VARIABLES
    all_downloads,        \* DownloadManager.all_downloads: the ids registered
    tasks,                \* the DownloadTask objects, by id
    download_queue,       \* DownloadManager.download_queue: the heap list of PriorityQueue
    active_downloads,     \* DownloadManager.active_downloads: set of ids
    scheduled_downloads,  \* DownloadScheduler.scheduled_downloads: heap list
    db_downloads,         \* table downloads: id -> row
    db_parts,             \* table download_parts: id -> rows
    engine_active,        \* DownloadEngine.active_downloads: set of ids
    download_threads,     \* DownloadEngine.download_threads: set of ids (keys)
    stop_events,          \* DownloadEngine.stop_events: id -> is_set
    workers,              \* live _download_part threads: set of <<id, part_number>>
    monitors,             \* live _monitor_progress threads: set of ids
    temp_files,           \* temp directory: <<id, part_number>> -> size
    final_files,          \* destination directory: filename -> size
    now,                  \* time.time()
    next_id,              \* number of DownloadTask objects created so far, plus one
    qp,                   \* the queue processor thread: its position and local `task`
    dequeued,             \* log of the entries PriorityQueue.get has returned
    calls,                \* number of API calls so far that changed anything
    db_lock,              \* DatabaseManager.lock: "free" or the thread holding it
    scheduler_lock,       \* DownloadScheduler.lock: "free" or the thread holding it
    boot,                 \* the thread constructing the DownloadManager: its position
    resched,              \* a thread calling reschedule_download: its position
    released,             \* log of the entries the scheduler loop has handed to start_callback
    adding                \* threads inside add_download: the url each has checked, if any

world_vars == <<all_downloads, tasks, download_queue, active_downloads,
                scheduled_downloads, db_downloads, db_parts, engine_active,
                download_threads, stop_events, workers, monitors, temp_files,
                final_files>>

vars == <<all_downloads, tasks, download_queue, active_downloads,
          scheduled_downloads, db_downloads, db_parts, engine_active,
          download_threads, stop_events, workers, monitors, temp_files,
          final_files, now, next_id, qp, dequeued, calls,
          db_lock, scheduler_lock, boot, resched, released, adding>>

\* the locks, the threads that can block on them or are inside a call, and
\* the scheduler's log
lock_vars == <<db_lock, scheduler_lock, boot, resched, released, adding>>

(***************************************************************************)
(* Bounds of the model.                                                    *)
(***************************************************************************)
AddThreads == {"t1", "t2"}   \* threads that call add_download at the same time
MaxTasks == 2            \* DownloadTask objects created in one run
MaxTime == 1             \* the clock runs 0..MaxTime
MaxPriority == 0         \* add_download draws priority from 0..MaxPriority
MaxCalls == 3            \* API calls that change the state, in one run
MaxQueueOps == 5         \* put calls in the queue-only specification
MaxSchedTasks == 3       \* tasks handed to the scheduler in the scheduler-only specification
MaxSchedTime == 3        \* the clock of the scheduler-only specification runs 0..MaxSchedTime
MaxAge == 1              \* cleanup_old_schedules draws max_age from 0..MaxAge
MaxBootTasks == 2        \* rows in the store the manager is started on
MaxPlanMiB == 12         \* file sizes in the plan-only specification go up to about MaxPlanMiB MiB
MaxBootTime == 2         \* the clock at startup and the stored scheduled times are within 0..MaxBootTime

(***************************************************************************)
(* Program constants and settings.                                         *)
(***************************************************************************)
max_retries == 3                  \* DownloadTask.max_retries
max_threads_per_download == 8     \* settings default
max_concurrent_downloads == 1     \* settings value the model runs with
ProgressStep == 1048576           \* bytes a part thread reports between two steps of the model
OneMiB == 1048576                 \* 1024 * 1024 in _setup_download

Ids == 1..MaxTasks
Urls == {"http://h/a.bin", "http://h/b.bin"}
InvalidUrl == "not a url"
MirrorUrl == "http://g/a.bin"      \* a file named like the first one, on another host
RangeIgnoredUrl == "http://h/c.bin"  \* a file on a server that ignores Range headers
NoLengthUrl == "http://h/d.bin"      \* a file on a server that sends no Content-Length
NoUrl == ""
NoTime == 0              \* scheduled_time None (0 is falsy as well)
NoPath == <<>>           \* temp_file_path None
NoTask == 0              \* the queue processor holds no task

PENDING == "pending"
DOWNLOADING == "downloading"
PAUSED == "paused"
COMPLETED == "completed"
ERROR == "error"
CANCELLED == "cancelled"
QUEUED == "queued"
DownloadStatus == {PENDING, DOWNLOADING, PAUSED, COMPLETED, ERROR, CANCELLED, QUEUED}

(***************************************************************************)
(* dict helpers                                                            *)
(***************************************************************************)
DictSet(d, k, v) == [x \in (DOMAIN d) \cup {k} |-> IF x = k THEN v ELSE d[x]]
DictDel(d, k) == [x \in (DOMAIN d) \ {k} |-> d[x]]
EmptyDict == [x \in {} |-> 0]

Min(a, b) == IF a < b THEN a ELSE b
Max(a, b) == IF a > b THEN a ELSE b

(***************************************************************************)
(* heapq, as PriorityQueue (download_queue) and the scheduler use it.      *)
(* Lists are 0-based in the code: position pos is element pos + 1 here.    *)
(* heapq compares entries with < only.                                     *)
(***************************************************************************)
QueuedDownload_lt_lowfirst(a, b) == a.priority < b.priority

\* QueuedDownload.__lt__: "Higher priority first"
QueuedDownload_lt(a, b) == a.priority > b.priority

\* ScheduledItem.__lt__
ScheduledItem_lt(a, b) == a.scheduled_time < b.scheduled_time

Less(kind, a, b) ==
    IF kind = "queue" THEN QueuedDownload_lt(a, b) ELSE ScheduledItem_lt(a, b)

RECURSIVE siftdown_loop(_, _, _, _, _)
siftdown_loop(kind, heap, startpos, pos, newitem) ==
    IF pos > startpos
    THEN LET parentpos == (pos - 1) \div 2
             parent == heap[parentpos + 1]
         IN  IF Less(kind, newitem, parent)
             THEN siftdown_loop(kind, [heap EXCEPT ![pos + 1] = parent],
                                startpos, parentpos, newitem)
             ELSE [heap EXCEPT ![pos + 1] = newitem]
    ELSE [heap EXCEPT ![pos + 1] = newitem]

\* heapq._siftdown(heap, startpos, pos)
siftdown(kind, heap, startpos, pos) ==
    siftdown_loop(kind, heap, startpos, pos, heap[pos + 1])

RECURSIVE siftup_loop(_, _, _, _, _)
siftup_loop(kind, heap, startpos, pos, newitem) ==
    LET endpos == Len(heap)
        childpos0 == 2 * pos + 1
    IN  IF childpos0 < endpos
        THEN LET rightpos == childpos0 + 1
                 childpos ==
                     IF rightpos < endpos
                        /\ ~Less(kind, heap[childpos0 + 1], heap[rightpos + 1])
                     THEN rightpos ELSE childpos0
             IN  siftup_loop(kind, [heap EXCEPT ![pos + 1] = heap[childpos + 1]],
                             startpos, childpos, newitem)
        ELSE siftdown(kind, [heap EXCEPT ![pos + 1] = newitem], startpos, pos)

\* heapq._siftup(heap, pos)
siftup(kind, heap, pos) == siftup_loop(kind, heap, pos, pos, heap[pos + 1])

\* heapq.heappush(heap, item)
heappush(kind, heap, item) ==
    siftdown(kind, Append(heap, item), 0, Len(heap))

\* heapq.heappop(heap): the item returned
heappop_item(heap) == heap[1]

\* heapq.heappop(heap): the heap left
heappop_rest(kind, heap) ==
    LET lastelt == heap[Len(heap)]
        rest == SubSeq(heap, 1, Len(heap) - 1)
    IN  IF rest # <<>>
        THEN siftup(kind, [rest EXCEPT ![1] = lastelt], 0)
        ELSE rest

\* heapq.heapify(x)
RECURSIVE heapify_from(_, _, _)
heapify_from(kind, x, i) ==
    IF i < 0 THEN x ELSE heapify_from(kind, siftup(kind, x, i), i - 1)

heapify(kind, x) == heapify_from(kind, x, (Len(x) \div 2) - 1)

(***************************************************************************)
(* The world the methods act on.                                           *)
(***************************************************************************)
World ==
    [all_downloads |-> all_downloads, tasks |-> tasks,
     download_queue |-> download_queue, active_downloads |-> active_downloads,
     scheduled_downloads |-> scheduled_downloads,
     db_downloads |-> db_downloads, db_parts |-> db_parts,
     engine_active |-> engine_active, download_threads |-> download_threads,
     stop_events |-> stop_events, workers |-> workers, monitors |-> monitors,
     temp_files |-> temp_files, final_files |-> final_files]

Apply(w) ==
    /\ all_downloads' = w.all_downloads
    /\ tasks' = w.tasks
    /\ download_queue' = w.download_queue
    /\ active_downloads' = w.active_downloads
    /\ scheduled_downloads' = w.scheduled_downloads
    /\ db_downloads' = w.db_downloads
    /\ db_parts' = w.db_parts
    /\ engine_active' = w.engine_active
    /\ download_threads' = w.download_threads
    /\ stop_events' = w.stop_events
    /\ workers' = w.workers
    /\ monitors' = w.monitors
    /\ temp_files' = w.temp_files
    /\ final_files' = w.final_files

\* DownloadTask._extract_filename_from_url: the last segment of the path
extract_filename_from_url(url) ==
    IF url \in {"http://h/a.bin", MirrorUrl} THEN "a.bin"
    ELSE IF url = "http://h/b.bin" THEN "b.bin"
    ELSE IF url = RangeIgnoredUrl THEN "c.bin"
    ELSE IF url = NoLengthUrl THEN "d.bin"
    ELSE "download_"

(***************************************************************************)
(* DownloadTask                                                            *)
(***************************************************************************)
\* DownloadTask.__init__, with the fields add_download sets right after
NewTask(url, scheduled_time, priority) ==
    [url |-> url, filename |-> extract_filename_from_url(url), status |-> PENDING,
     priority |-> priority,
     retry_count |-> 0, scheduled_time |-> scheduled_time, file_size |-> 0,
     supports_range_requests |-> FALSE, downloaded_bytes |-> 0,
     progress_percentage |-> 0,
     error_message |-> "", parts |-> <<>>]

\* DownloadTask.update_progress; progress_percentage in whole percents
update_progress(t, downloaded_bytes) ==
    [t EXCEPT !.downloaded_bytes = downloaded_bytes,
              !.progress_percentage =
                  IF t.file_size > 0 THEN (downloaded_bytes * 100) \div t.file_size
                  ELSE 0]

\* DownloadTask.start
task_start(t) == [t EXCEPT !.status = DOWNLOADING]

\* DownloadTask.pause
task_pause(t) == IF t.status = DOWNLOADING THEN [t EXCEPT !.status = PAUSED] ELSE t

\* DownloadTask.complete
task_complete(t) ==
    [t EXCEPT !.status = COMPLETED, !.progress_percentage = 100,
              !.downloaded_bytes = t.file_size]

\* DownloadTask.error
task_error(t, message) == [t EXCEPT !.status = ERROR, !.error_message = message]

\* DownloadTask.cancel
task_cancel(t) == [t EXCEPT !.status = CANCELLED]

can_retry_always(t) == t.retry_count >= 0

\* DownloadTask.can_retry
can_retry(t) == t.retry_count < max_retries

\* DownloadTask.retry
task_retry(t) ==
    IF can_retry(t)
    THEN [t EXCEPT !.retry_count = @ + 1, !.status = PENDING, !.error_message = ""]
    ELSE t

\* DownloadTask.get_total_downloaded_bytes
RECURSIVE SumBytes(_)
SumBytes(ps) ==
    IF ps = <<>> THEN 0 ELSE Head(ps).downloaded_bytes + SumBytes(Tail(ps))

get_total_downloaded_bytes(t) == SumBytes(t.parts)

plan_parts_no_remainder(num_threads, file_size) ==
    LET part_size == file_size \div num_threads
    IN  [k \in 1..num_threads |->
            [part_number |-> k - 1,
             start_byte |-> (k - 1) * part_size,
             end_byte |-> (k - 1) * part_size + part_size - 1,
             downloaded_bytes |-> 0, status |-> PENDING,
             temp_file_path |-> NoPath]]

\* DownloadTask.setup_multithread_download: the parts list
plan_parts(num_threads, file_size) ==
    IF num_threads <= 1
    THEN <<[part_number |-> 0, start_byte |-> 0, end_byte |-> file_size - 1,
            downloaded_bytes |-> 0, status |-> PENDING, temp_file_path |-> NoPath]>>
    ELSE LET part_size == file_size \div num_threads
         IN  [k \in 1..num_threads |->
                 [part_number |-> k - 1,
                  start_byte |-> (k - 1) * part_size,
                  end_byte |-> IF k = num_threads THEN file_size - 1
                               ELSE (k - 1) * part_size + part_size - 1,
                  downloaded_bytes |-> 0, status |-> PENDING,
                  temp_file_path |-> NoPath]]

\* DownloadTask.setup_multithread_download
setup_multithread_download(t, num_threads, file_size) ==
    [t EXCEPT !.file_size = file_size, !.supports_range_requests = TRUE,
              !.parts = plan_parts(num_threads, file_size)]

(***************************************************************************)
(* DatabaseManager                                                         *)
(***************************************************************************)
\* DownloadTask.to_dict
to_dict(t) ==
    [url |-> t.url, filename |-> t.filename, status |-> t.status,
     priority |-> t.priority, retry_count |-> t.retry_count,
     scheduled_time |-> t.scheduled_time, file_size |-> t.file_size,
     supports_range_requests |-> t.supports_range_requests,
     downloaded_bytes |-> t.downloaded_bytes,
     progress_percentage |-> t.progress_percentage,
     error_message |-> t.error_message]

\* the values save_download binds to the columns: booleans become integers
row_of(data) ==
    [data EXCEPT !.supports_range_requests = IF @ THEN 1 ELSE 0]

save_download_without_parts(w, id) ==
    [w EXCEPT !.db_downloads = DictSet(@, id, row_of(to_dict(w.tasks[id])))]

\* DatabaseManager.save_download
save_download(w, id) ==
    LET t == w.tasks[id]
    IN  [w EXCEPT !.db_downloads = DictSet(@, id, row_of(to_dict(t))),
                  !.db_parts = IF t.parts # <<>> THEN DictSet(@, id, t.parts) ELSE @]

\* DatabaseManager.delete_download: the store left (it returns rowcount > 0)
db_delete_download(w, id) ==
    [w EXCEPT !.db_downloads = DictDel(@, id), !.db_parts = DictDel(@, id)]

\* DatabaseManager.delete_download: the value returned, the rowcount of
\* DELETE FROM downloads being positive
db_delete_returns(w, id) == id \in DOMAIN w.db_downloads

\* DatabaseManager.update_download_progress
update_download_progress(w, id) ==
    IF id \in DOMAIN w.db_downloads
    THEN [w EXCEPT !.db_downloads[id].downloaded_bytes = w.tasks[id].downloaded_bytes,
                   !.db_downloads[id].progress_percentage =
                       w.tasks[id].progress_percentage]
    ELSE w

(***************************************************************************)
(* DownloadManager callbacks the engine calls                              *)
(***************************************************************************)
\* DownloadManager._on_status_change (the engine's status_callback)
on_status_change(w, id) ==
    LET w1 == save_download(w, id)
    IN  IF w1.tasks[id].status \in {COMPLETED, CANCELLED, ERROR}
        THEN [w1 EXCEPT !.active_downloads = @ \ {id}]
        ELSE w1

\* DownloadManager._on_progress_update (the engine's progress_callback);
\* `flush` says whether more than 5 s passed since the task's last flush
on_progress_update(w, id, flush) ==
    IF flush THEN update_download_progress(w, id) ELSE w

(***************************************************************************)
(* FileManager                                                             *)
(***************************************************************************)
\* FileManager.create_temp_file: touch
create_temp_file(files, path) ==
    IF path \in DOMAIN files THEN files ELSE DictSet(files, path, 0)

\* FileManager.append_to_temp_file: open(path, 'ab') and write
append_to_temp_file(files, path, n) ==
    DictSet(files, path, (IF path \in DOMAIN files THEN files[path] ELSE 0) + n)

\* FileManager.cleanup_temp_files
cleanup_temp_files(files, paths) == [x \in (DOMAIN files) \ paths |-> files[x]]

(***************************************************************************)
(* DownloadEngine                                                          *)
(***************************************************************************)
\* get_file_info: what the server says about the file behind a URL.  One URL
\* is a file of one and a half chunks on a server without range support, the
\* other a 2 MiB file on a server with range support; the mirror has a file
\* of one chunk under the first one's name.  One server sends no
\* Content-Length header, so that file_size is 0.  The last server announces
\* Accept-Ranges: bytes for its 2 MiB file and answers a request with a Range
\* header by 200 and the whole file.
ServerFile(url) ==
    IF url = "http://h/a.bin"
    THEN [file_size |-> ProgressStep + ProgressStep \div 2, supports_range |-> FALSE]
    ELSE IF url = MirrorUrl
    THEN [file_size |-> ProgressStep, supports_range |-> FALSE]
    ELSE IF url = NoLengthUrl
    THEN [file_size |-> 0, supports_range |-> FALSE]
    ELSE [file_size |-> 2 * OneMiB, supports_range |-> TRUE]

\* the status of the server's answer to a request with a Range header
RangeStatus(url) ==
    IF ServerFile(url).supports_range /\ url # RangeIgnoredUrl THEN 206 ELSE 200

\* _download_part: whether the part is asked for by download_range
is_ranged_request(t) == t.supports_range_requests /\ Len(t.parts) > 1

\* HTTPClient.download_range and download_full: the length of the body the
\* request of a part returns, the bytes asked for when the answer is 206 and
\* the whole file when it is 200
body_length(t, part) ==
    IF is_ranged_request(t) /\ RangeStatus(t.url) = 206
    THEN part.end_byte - part.start_byte + 1
    ELSE ServerFile(t.url).file_size

PartLen(part) == part.end_byte - part.start_byte + 1

\* bytes the part's request has still to deliver
Remaining(t, part) == body_length(t, part) - part.downloaded_bytes

PartPaths(t) ==
    {t.parts[k].temp_file_path : k \in 1..Len(t.parts)} \ {NoPath}

num_threads_ignoring_range(max_threads, t) ==
    IF t.file_size > OneMiB
    THEN Min(max_threads, Max(1, t.file_size \div OneMiB))
    ELSE 1

\* DownloadEngine._setup_download: num_threads, for a value of the setting
\* max_threads_per_download
num_threads(max_threads, t) ==
    IF t.supports_range_requests /\ t.file_size > OneMiB
    THEN Min(max_threads, Max(1, t.file_size \div OneMiB))
    ELSE 1

\* DownloadEngine._setup_download: num_threads
num_threads_for(t) == num_threads(max_threads_per_download, t)

RECURSIVE touch_all(_, _, _)
touch_all(files, id, n) ==
    IF n = 0 THEN files
    ELSE touch_all(create_temp_file(files, <<id, n - 1>>), id, n - 1)

\* DownloadEngine._setup_download
setup_download(w, id) ==
    LET t == w.tasks[id]
        t1 == setup_multithread_download(t, num_threads_for(t), t.file_size)
        t2 == [t1 EXCEPT !.parts =
                  [k \in 1..Len(t1.parts) |->
                      [t1.parts[k] EXCEPT !.temp_file_path = <<id, k - 1>>]]]
        w1 == [w EXCEPT !.tasks[id] = task_start(t2),
                        !.temp_files = touch_all(@, id, Len(t2.parts)),
                        !.stop_events = DictSet(@, id, FALSE)]
    IN  on_status_change(w1, id)

part_thread_entry_always_requests(part) == [part EXCEPT !.status = DOWNLOADING]

\* the entry of _download_part, run when the thread starts
part_thread_entry(part) ==
    IF part.start_byte + part.downloaded_bytes > part.end_byte
    THEN [part EXCEPT !.status = COMPLETED]
    ELSE [part EXCEPT !.status = DOWNLOADING]

\* DownloadEngine._start_download_threads
start_download_threads(w, id) ==
    LET ps == [k \in 1..Len(w.tasks[id].parts) |->
                  part_thread_entry(w.tasks[id].parts[k])]
    IN  [w EXCEPT !.engine_active = @ \cup {id},
                  !.tasks[id].parts = ps,
                  !.workers = @ \cup {<<id, k - 1>> : k \in
                                 {j \in 1..Len(ps) : ps[j].status = DOWNLOADING}},
                  !.download_threads = @ \cup {id},
                  !.monitors = @ \cup {id}]

\* what the network and the disk answer to one start_download: test_connection,
\* get_file_info (whether it raised), ensure_sufficient_space
StartEnvs ==
    {[reachable |-> FALSE, info |-> FALSE, space |-> FALSE],
     [reachable |-> TRUE, info |-> FALSE, space |-> FALSE],
     [reachable |-> TRUE, info |-> TRUE, space |-> FALSE],
     [reachable |-> TRUE, info |-> TRUE, space |-> TRUE]}

\* DownloadEngine.start_download: the world left and the value returned
engine_start_download(w, id, env) ==
    IF id \in w.engine_active
    THEN [w |-> w, ok |-> FALSE]
    ELSE IF ~env.reachable
    THEN [w |-> [w EXCEPT !.tasks[id] = task_error(@, "Invalid download task")],
          ok |-> FALSE]
    ELSE IF ~env.info
    THEN [w |-> [w EXCEPT !.tasks[id] =
                     task_error(@, "Failed to get file information")],
          ok |-> FALSE]
    ELSE LET file_info == ServerFile(w.tasks[id].url)
             w1 == [w EXCEPT !.tasks[id].file_size = file_info.file_size,
                             !.tasks[id].supports_range_requests =
                                 file_info.supports_range]
         IN  IF w1.tasks[id].file_size > 0 /\ ~env.space
             THEN [w |-> [w1 EXCEPT !.tasks[id] =
                             task_error(@, "Insufficient disk space")],
                   ok |-> FALSE]
             ELSE [w |-> start_download_threads(setup_download(w1, id), id),
                   ok |-> TRUE]

\* _download_part after the last chunk: append the data, mark the part
worker_finish(w, id, pn) ==
    LET part == w.tasks[id].parts[pn + 1]
    IN  [w EXCEPT !.temp_files =
                      append_to_temp_file(@, part.temp_file_path,
                                          part.downloaded_bytes),
                  !.tasks[id].parts[pn + 1].status = COMPLETED,
                  !.workers = @ \ {<<id, pn>>}]

\* _download_part leaving without writing (the callback raised)
worker_exit(w, id, pn) == [w EXCEPT !.workers = @ \ {<<id, pn>>}]

stop_is_set(w, id) == id \in DOMAIN w.stop_events /\ w.stop_events[id]
stop_is_clear(w, id) == id \in DOMAIN w.stop_events /\ ~w.stop_events[id]

\* thread.join for the part threads of one download, parts n-1 down to 0
RECURSIVE join_threads(_, _, _)
join_threads(w, id, n) ==
    IF n = 0 THEN w
    ELSE LET w1 ==
                 IF <<id, n - 1>> \notin w.workers THEN w
                 ELSE IF Remaining(w.tasks[id], w.tasks[id].parts[n]) = 0
                      THEN worker_finish(w, id, n - 1)
                      ELSE IF stop_is_clear(w, id) THEN w
                           ELSE worker_exit(w, id, n - 1)
         IN  join_threads(w1, id, n - 1)

\* DownloadEngine._wait_for_threads
wait_for_threads(w, id) ==
    IF id \notin w.download_threads THEN w
    ELSE join_threads(w, id, Len(w.tasks[id].parts))

set_stop_event(w, id) ==
    IF id \in DOMAIN w.stop_events THEN [w EXCEPT !.stop_events[id] = TRUE] ELSE w

cleanup_download_keep_files(w, id) ==
    [w EXCEPT !.download_threads = @ \ {id},
              !.stop_events = DictDel(@, id)]

\* DownloadEngine._cleanup_download
cleanup_download(w, id) ==
    [w EXCEPT !.temp_files = cleanup_temp_files(@, PartPaths(w.tasks[id])),
              !.download_threads = @ \ {id},
              !.stop_events = DictDel(@, id)]

engine_pause_download_no_signal(w, id) ==
    IF id \notin w.engine_active
    THEN [w |-> w, ok |-> FALSE]
    ELSE LET w1 == wait_for_threads(w, id)
             w2 == [w1 EXCEPT !.tasks[id] = task_pause(@)]
         IN  [w |-> on_status_change(w2, id), ok |-> TRUE]

\* DownloadEngine.pause_download
engine_pause_download(w, id) ==
    IF id \notin w.engine_active
    THEN [w |-> w, ok |-> FALSE]
    ELSE LET w1 == wait_for_threads(set_stop_event(w, id), id)
             w2 == [w1 EXCEPT !.tasks[id] = task_pause(@)]
         IN  [w |-> on_status_change(w2, id), ok |-> TRUE]

\* DownloadEngine.cancel_download
engine_cancel_download(w, id) ==
    LET w1 == wait_for_threads(set_stop_event(w, id), id)
        w2 == cleanup_download(w1, id)
        w3 == [w2 EXCEPT !.tasks[id] = task_cancel(@)]
    IN  [w |-> on_status_change(w3, id), ok |-> TRUE]

\* DownloadEngine._complete_download; merge_ok: merge_temp_files did not raise
complete_download(w, id, merge_ok) ==
    LET t == w.tasks[id]
        temp == {x \in PartPaths(t) : x \in DOMAIN w.temp_files}
        merged == SumBytes([k \in 1..Len(t.parts) |->
                     [downloaded_bytes |->
                         IF t.parts[k].temp_file_path \in temp
                         THEN w.temp_files[t.parts[k].temp_file_path] ELSE 0]])
    IN  IF temp = {}
        THEN [w EXCEPT !.tasks[id] = task_error(@, "No temporary files found")]
        ELSE IF ~merge_ok
        THEN [w EXCEPT !.tasks[id] = task_error(@, "Failed to complete download")]
        ELSE LET w1 == [w EXCEPT !.final_files = DictSet(@, t.filename, merged)]
             IN  IF merged = t.file_size
                 THEN on_status_change(
                          [w1 EXCEPT !.temp_files = cleanup_temp_files(@, temp),
                                     !.tasks[id] = task_complete(@)], id)
                 ELSE [w1 EXCEPT !.tasks[id] =
                          task_error(@, "File integrity verification failed")]

AllPartsCompleted(t) == \A k \in 1..Len(t.parts) : t.parts[k].status = COMPLETED
SomePartError(t) == \E k \in 1..Len(t.parts) : t.parts[k].status = ERROR

\* one evaluation of the loop of DownloadEngine._monitor_progress: the world
\* left, and whether the thread lives on
monitor_iteration(w, id, merge_ok) ==
    LET t == w.tasks[id]
        left == [w EXCEPT !.engine_active = @ \ {id}, !.monitors = @ \ {id}]
    IN  IF id \notin w.engine_active
        THEN [w EXCEPT !.monitors = @ \ {id}]
        ELSE IF id \notin DOMAIN w.stop_events
        THEN [w EXCEPT !.monitors = @ \ {id}]       \* KeyError ends the thread
        ELSE IF w.stop_events[id]
        THEN left
        ELSE IF AllPartsCompleted(t)
        THEN LET w1 == complete_download(w, id, merge_ok)
             IN  [w1 EXCEPT !.engine_active = @ \ {id}, !.monitors = @ \ {id}]
        ELSE IF SomePartError(t) /\ ~can_retry(t)
        THEN LET w1 == cleanup_download(
                           [w EXCEPT !.tasks[id] =
                               task_error(@, "Download failed after maximum retries")],
                           id)
             IN  [w1 EXCEPT !.engine_active = @ \ {id}, !.monitors = @ \ {id}]
        ELSE w                                      \* time.sleep(1)

(***************************************************************************)
(* DownloadScheduler                                                       *)
(***************************************************************************)
schedule_download_unchecked(w, id, time) ==
    [w |-> [w EXCEPT !.scheduled_downloads =
               heappush("schedule", @,
                        [scheduled_time |-> w.tasks[id].scheduled_time, task |-> id])],
     ok |-> TRUE]

\* DownloadScheduler.schedule_download
schedule_download(w, id, time) ==
    LET t == w.tasks[id]
    IN  IF t.scheduled_time = NoTime \/ t.scheduled_time <= time
        THEN [w |-> w, ok |-> FALSE]
        ELSE [w |-> [w EXCEPT !.scheduled_downloads =
                        heappush("schedule", @,
                                 [scheduled_time |-> t.scheduled_time, task |-> id])],
              ok |-> TRUE]

\* del a_list[i]
RemoveAt(x, i) == SubSeq(x, 1, i - 1) \o SubSeq(x, i + 1, Len(x))

\* the positions of a task's entries in the scheduler's list
ScheduledAt(w, id) ==
    {i \in 1..Len(w.scheduled_downloads) : w.scheduled_downloads[i].task = id}

unschedule_download_no_heapify(w, id) ==
    IF ScheduledAt(w, id) = {} THEN [w |-> w, ok |-> FALSE]
    ELSE LET i == CHOOSE i \in ScheduledAt(w, id) :
                      \A j \in ScheduledAt(w, id) : i <= j
         IN  [w |-> [w EXCEPT !.scheduled_downloads = RemoveAt(@, i)],
              ok |-> TRUE]

\* DownloadScheduler.unschedule_download: the first entry of the task
unschedule_download(w, id) ==
    IF ScheduledAt(w, id) = {} THEN [w |-> w, ok |-> FALSE]
    ELSE LET i == CHOOSE i \in ScheduledAt(w, id) :
                      \A j \in ScheduledAt(w, id) : i <= j
         IN  [w |-> [w EXCEPT !.scheduled_downloads =
                        heapify("schedule", RemoveAt(@, i))],
              ok |-> TRUE]

\* threading.Lock.acquire by a thread while `holder` holds the lock: a Lock has
\* no owner, so it is granted only when nobody holds it, the caller included
lock_is_free(holder) == holder = "free"

\* DownloadScheduler.reschedule_download, called with the lock free: `pc` is
\* where the call stands when it can go no further, `ok` what it returned.
\* It takes the lock (line 85) and, having found the task, calls
\* unschedule_download, which takes the same lock (line 73).
reschedule_download(w, id, new_time, time) ==
    LET holder == "reschedule_download"
    IN  IF ScheduledAt(w, id) = {}
        THEN [w |-> w, ok |-> FALSE, pc |-> "returned"]
        ELSE IF ~lock_is_free(holder)
        THEN [w |-> w, ok |-> FALSE, pc |-> "unschedule_download"]
        ELSE LET u == unschedule_download(w, id)
                 w1 == [u.w EXCEPT !.tasks[id].scheduled_time = new_time]
                 r == schedule_download(w1, id, time)
             IN  [w |-> r.w, ok |-> r.ok, pc |-> "returned"]

\* list.remove for every entry of a list of entries
RECURSIVE remove_all(_, _)
remove_all(x, old) ==
    IF old = <<>> THEN x
    ELSE LET i == CHOOSE i \in 1..Len(x) :
                      /\ x[i] = Head(old)
                      /\ \A j \in 1..(i - 1) : x[j] # Head(old)
         IN  remove_all(RemoveAt(x, i), Tail(old))

\* DownloadScheduler.cleanup_old_schedules; max_age in units of the clock
cleanup_old_schedules(w, max_age, time) ==
    LET cutoff_time == time - max_age
        x == w.scheduled_downloads
        old_schedules == SelectSeq(x, LAMBDA item : item.scheduled_time < cutoff_time)
        left == remove_all(x, old_schedules)
    IN  [w |-> [w EXCEPT !.scheduled_downloads =
                   IF Len(old_schedules) > 0 THEN heapify("schedule", left)
                   ELSE left],
         removed_count |-> Len(old_schedules)]

\* DownloadScheduler.clear_all_schedules
clear_all_schedules(w) ==
    [w |-> [w EXCEPT !.scheduled_downloads = <<>>],
     count |-> Len(w.scheduled_downloads)]

(***************************************************************************)
(* DatabaseManager: the calls that load tasks                              *)
(***************************************************************************)
\* load_download returns None
None == "None"

\* DownloadTask.from_dict: a task built by the constructor, then the fields
from_dict(data) ==
    [url |-> data.url,
     filename |-> IF data.filename = "" THEN extract_filename_from_url(data.url)
                  ELSE data.filename,
     status |-> data.status,
     priority |-> data.priority, retry_count |-> data.retry_count,
     scheduled_time |-> data.scheduled_time, file_size |-> data.file_size,
     supports_range_requests |-> data.supports_range_requests,
     downloaded_bytes |-> data.downloaded_bytes,
     progress_percentage |-> data.progress_percentage,
     error_message |-> data.error_message,
     parts |-> <<>>]

\* DatabaseManager.load_download: DownloadTask.from_dict(row) and the part rows
load_download(w, id) ==
    IF id \notin DOMAIN w.db_downloads THEN None
    ELSE LET row == w.db_downloads[id]
             data == [row EXCEPT !.supports_range_requests = (@ # 0)]
         IN  [from_dict(data) EXCEPT
                 !.parts = IF id \in DOMAIN w.db_parts THEN w.db_parts[id] ELSE @]

\* SELECT id ... ORDER BY created_at DESC: ids are numbered in creation order
RECURSIVE select_ids(_)
select_ids(S) ==
    IF S = {} THEN <<>>
    ELSE LET m == CHOOSE m \in S : \A x \in S : x <= m
         IN  <<m>> \o select_ids(S \ {m})

\* the loop of load_all_downloads and get_downloads_by_status over the ids
\* selected, run by a thread that holds the store's lock as `holder`:
\* load_download opens its own connection, which takes the lock (line 91)
load_selected(w, ids, holder) ==
    IF ids = <<>> THEN [downloads |-> <<>>, pc |-> "returned"]
    ELSE IF ~lock_is_free(holder)
    THEN [downloads |-> <<>>, pc |-> "load_download"]
    ELSE [downloads |-> [i \in 1..Len(ids) |->
                            [id |-> ids[i], task |-> load_download(w, ids[i])]],
          pc |-> "returned"]

\* DatabaseManager.load_all_downloads, called with the lock free: `pc` is
\* where the call stands when it can go no further
load_all_downloads(w) ==
    load_selected(w, select_ids(DOMAIN w.db_downloads), "load_all_downloads")

\* DatabaseManager.get_downloads_by_status, called with the lock free
get_downloads_by_status(w, status) ==
    load_selected(w,
                  select_ids({id \in DOMAIN w.db_downloads :
                                 w.db_downloads[id].status = status}),
                  "get_downloads_by_status")

(***************************************************************************)
(* DownloadManager                                                         *)
(***************************************************************************)
\* validators.url
validators_url(url) == url \in Urls \cup {MirrorUrl, RangeIgnoredUrl, NoLengthUrl}

is_duplicate_url_any_status(w, url) ==
    \E i \in w.all_downloads : w.tasks[i].url = url

\* DownloadManager._is_duplicate_url
is_duplicate_url(w, url) ==
    \E i \in w.all_downloads :
        /\ w.tasks[i].url = url
        /\ w.tasks[i].status \notin {COMPLETED, CANCELLED}

\* DownloadManager._queue_download
queue_download(w, id) ==
    LET t == w.tasks[id]
        w1 == [w EXCEPT !.download_queue =
                   heappush("queue", @, [priority |-> t.priority, task |-> id]),
                        !.tasks[id].status = QUEUED]
    IN  save_download(w1, id)

add_download_no_checks(w, url, direct_url, scheduled_time, priority, id, time) ==
    [w |-> queue_download(
              save_download([w EXCEPT !.tasks = DictSet(@, id,
                                 NewTask(url, scheduled_time, priority)),
                                      !.all_downloads = @ \cup {id}], id), id),
     ret |-> "task"]

\* DownloadManager.add_download after its two checks: the task is created,
\* saved, registered and scheduled or queued
add_download_create(w, url, direct_url, scheduled_time, priority, id, time) ==
    LET t0 == NewTask(url, scheduled_time, priority)
        t == IF direct_url # NoUrl THEN [t0 EXCEPT !.url = direct_url] ELSE t0
        w1 == save_download([w EXCEPT !.tasks = DictSet(@, id, t)], id)
        w2 == [w1 EXCEPT !.all_downloads = @ \cup {id}]
    IN  IF scheduled_time # NoTime /\ scheduled_time > time
        THEN [w |-> [schedule_download(w2, id, time).w
                        EXCEPT !.tasks[id].status = QUEUED],
              ret |-> "task"]
        ELSE [w |-> queue_download(w2, id), ret |-> "task"]

\* DownloadManager.add_download; direct_url is what the video detector found
add_download(w, url, direct_url, scheduled_time, priority, id, time) ==
    IF ~validators_url(url) \/ is_duplicate_url(w, url)
    THEN [w |-> w, ret |-> "None"]
    ELSE add_download_create(w, url, direct_url, scheduled_time, priority, id, time)

start_download_any_status(w, id) ==
    IF id \notin w.all_downloads THEN [w |-> w, ret |-> "False"]
    ELSE [w |-> queue_download(w, id), ret |-> "True"]

\* DownloadManager.start_download
start_download(w, id) ==
    IF id \notin w.all_downloads THEN [w |-> w, ret |-> "False"]
    ELSE IF w.tasks[id].status \in {PENDING, PAUSED}
    THEN [w |-> queue_download(w, id), ret |-> "True"]
    ELSE [w |-> w, ret |-> "False"]

\* DownloadManager.resume_download
resume_download(w, id) ==
    IF id \notin w.all_downloads THEN [w |-> w, ret |-> "False"]
    ELSE IF w.tasks[id].status = PAUSED
    THEN [w |-> queue_download(w, id), ret |-> "True"]
    ELSE [w |-> w, ret |-> "False"]

\* DownloadManager.pause_download
pause_download(w, id) ==
    IF id \notin w.all_downloads THEN [w |-> w, ret |-> "False"]
    ELSE IF w.tasks[id].status = DOWNLOADING
    THEN LET r == engine_pause_download(w, id)
         IN  IF r.ok
             THEN [w |-> save_download(
                            [r.w EXCEPT !.active_downloads = @ \ {id}], id),
                   ret |-> "True"]
             ELSE [w |-> r.w, ret |-> "False"]
    ELSE [w |-> w, ret |-> "False"]

\* DownloadManager.cancel_download
cancel_download(w, id) ==
    IF id \notin w.all_downloads THEN [w |-> w, ret |-> "False"]
    ELSE LET w1 == IF w.tasks[id].status = DOWNLOADING
                   THEN engine_cancel_download(w, id).w ELSE w
             w2 == save_download([w1 EXCEPT !.tasks[id] = task_cancel(@)], id)
         IN  [w |-> [w2 EXCEPT !.active_downloads = @ \ {id}], ret |-> "True"]

\* DownloadManager.delete_download
delete_download(w, id) ==
    LET w1 == cancel_download(w, id).w
        success == id \in DOMAIN w1.db_downloads
        w2 == db_delete_download(w1, id)
    IN  [w |-> [w2 EXCEPT !.all_downloads = @ \ {id}],
         ret |-> IF success THEN "True" ELSE "False"]

\* DownloadManager.retry_download
retry_download(w, id) ==
    IF id \notin w.all_downloads THEN [w |-> w, ret |-> "False"]
    ELSE IF w.tasks[id].status = ERROR /\ can_retry(w.tasks[id])
    THEN [w |-> queue_download(
                   save_download([w EXCEPT !.tasks[id] = task_retry(@)], id), id),
          ret |-> "True"]
    ELSE [w |-> w, ret |-> "False"]

\* DownloadManager._start_download_internal
start_download_internal(w, id, env) ==
    LET r == engine_start_download(w, id, env)
    IN  IF r.ok THEN [w |-> save_download(r.w, id), ok |-> TRUE] ELSE r

(***************************************************************************)
(* Initial state: DownloadManager.__init__ on an empty store.              *)
(***************************************************************************)
Init ==
    /\ all_downloads = {}
    /\ tasks = EmptyDict
    /\ download_queue = <<>>
    /\ active_downloads = {}
    /\ scheduled_downloads = <<>>
    /\ db_downloads = EmptyDict
    /\ db_parts = EmptyDict
    /\ engine_active = {}
    /\ download_threads = {}
    /\ stop_events = EmptyDict
    /\ workers = {}
    /\ monitors = {}
    /\ temp_files = EmptyDict
    /\ final_files = EmptyDict
    /\ now = 0
    /\ next_id = 1
    /\ qp = [pc |-> "check", task |-> NoTask]
    /\ dequeued = <<>>
    /\ calls = 0
    /\ db_lock = "free"
    /\ scheduler_lock = "free"
    /\ boot = [pc |-> "done"]
    /\ resched = [pc |-> "idle"]
    /\ released = <<>>
    /\ adding = [thread \in AddThreads |-> NoUrl]

(***************************************************************************)
(* Actions: the API calls, each a whole call.                              *)
(***************************************************************************)
Priorities == 0..MaxPriority
\* the URLs of the model are plain files: detect_video finds no other URL
DirectUrls == {NoUrl}
ScheduledTimes == {NoTime} \cup (1..MaxTime)

ApiCall(r) ==
    /\ r.w # World => calls < MaxCalls
    /\ calls' = IF r.w # World THEN calls + 1 ELSE calls
    /\ Apply(r.w)
    /\ UNCHANGED <<now, qp, dequeued, lock_vars>>

AddDownload(url, direct_url, scheduled_time, priority) ==
    LET r == add_download(World, url, direct_url, scheduled_time, priority,
                          next_id, now)
    IN  /\ r.ret = "task" => next_id <= MaxTasks
        /\ ApiCall(r)
        /\ next_id' = IF r.ret = "task" THEN next_id + 1 ELSE next_id

StartDownload(id) == ApiCall(start_download(World, id)) /\ UNCHANGED next_id

PauseDownload(id) == ApiCall(pause_download(World, id)) /\ UNCHANGED next_id

ResumeDownload(id) == ApiCall(resume_download(World, id)) /\ UNCHANGED next_id

CancelDownload(id) == ApiCall(cancel_download(World, id)) /\ UNCHANGED next_id

DeleteDownload(id) == ApiCall(delete_download(World, id)) /\ UNCHANGED next_id

RetryDownload(id) == ApiCall(retry_download(World, id)) /\ UNCHANGED next_id

(***************************************************************************)
(* The queue processor thread, DownloadManager._process_queue.             *)
(***************************************************************************)
QpCheck_NoLimit ==
    /\ qp.pc = "check"
    /\ qp' = [qp EXCEPT !.pc = "get"]
    /\ UNCHANGED <<world_vars, now, next_id, dequeued, calls, lock_vars>>

\* active_count = len(self.active_downloads); the comparison with max_concurrent
QpCheck ==
    /\ qp.pc = "check"
    /\ Cardinality(active_downloads) < max_concurrent_downloads
    /\ qp' = [qp EXCEPT !.pc = "get"]
    /\ UNCHANGED <<world_vars, now, next_id, dequeued, calls, lock_vars>>

\* download_queue.get(timeout=1.0) timed out
QpTimeout ==
    /\ qp.pc = "get"
    /\ download_queue = <<>>
    /\ qp' = [qp EXCEPT !.pc = "check"]
    /\ UNCHANGED <<world_vars, now, next_id, dequeued, calls, lock_vars>>

\* download_queue.get returned an entry; _start_download_internal(task)
QpStart(env) ==
    /\ qp.pc = "get"
    /\ download_queue # <<>>
    /\ LET id == heappop_item(download_queue).task
           w1 == [World EXCEPT !.download_queue = heappop_rest("queue", @)]
           r == start_download_internal(w1, id, env)
       IN  /\ Apply(r.w)
           /\ qp' = IF r.ok THEN [pc |-> "add", task |-> id]
                    ELSE [pc |-> "check", task |-> NoTask]
    /\ UNCHANGED <<now, next_id, dequeued, calls, lock_vars>>

\* with self.lock: self.active_downloads[task.id] = task
QpAdd ==
    /\ qp.pc = "add"
    /\ active_downloads' = active_downloads \cup {qp.task}
    /\ qp' = [pc |-> "check", task |-> NoTask]
    /\ UNCHANGED <<all_downloads, tasks, download_queue, scheduled_downloads,
                   db_downloads, db_parts, engine_active, download_threads,
                   stop_events, workers, monitors, temp_files, final_files,
                   now, next_id, dequeued, calls, lock_vars>>

(***************************************************************************)
(* The scheduler thread and the clock.                                     *)
(***************************************************************************)
Tick ==
    /\ now < MaxTime
    /\ now' = now + 1
    /\ UNCHANGED <<world_vars, next_id, qp, dequeued, calls, lock_vars>>

SchedulerRelease_Early ==
    /\ scheduled_downloads # <<>>
    /\ LET id == heappop_item(scheduled_downloads).task
           w1 == [World EXCEPT !.scheduled_downloads = heappop_rest("schedule", @)]
       IN  Apply(queue_download(w1, id))
    /\ UNCHANGED <<now, next_id, qp, dequeued, calls, lock_vars>>

\* DownloadScheduler._scheduler_loop: the top entry is due
SchedulerRelease ==
    /\ scheduled_downloads # <<>>
    /\ heappop_item(scheduled_downloads).scheduled_time <= now
    /\ LET id == heappop_item(scheduled_downloads).task
           w1 == [World EXCEPT !.scheduled_downloads = heappop_rest("schedule", @)]
       IN  Apply(queue_download(w1, id))
    /\ UNCHANGED <<now, next_id, qp, dequeued, calls, lock_vars>>

(***************************************************************************)
(* The part threads, DownloadEngine._download_part.                        *)
(***************************************************************************)
\* a chunk arrives: part_progress_callback, _update_overall_progress
WorkerChunk(id, pn, flush) ==
    /\ <<id, pn>> \in workers
    /\ stop_is_clear(World, id)
    /\ Remaining(tasks[id], tasks[id].parts[pn + 1]) > 0
    /\ LET part == tasks[id].parts[pn + 1]
           w1 == [World EXCEPT !.tasks[id].parts[pn + 1].downloaded_bytes =
                                   @ + Min(ProgressStep, Remaining(tasks[id], part))]
           w2 == [w1 EXCEPT !.tasks[id] =
                                update_progress(@, get_total_downloaded_bytes(@))]
       IN  Apply(on_progress_update(w2, id, flush))
    /\ UNCHANGED <<now, next_id, qp, dequeued, calls, lock_vars>>

\* the body is complete: append it to the temp file
WorkerFinish(id, pn) ==
    /\ <<id, pn>> \in workers
    /\ Remaining(tasks[id], tasks[id].parts[pn + 1]) = 0
    /\ Apply(worker_finish(World, id, pn))
    /\ UNCHANGED <<now, next_id, qp, dequeued, calls, lock_vars>>

\* the request or the write raises, or the callback does (the stop event is
\* set or gone)
WorkerFail(id, pn) ==
    /\ <<id, pn>> \in workers
    /\ LET w1 == worker_exit(World, id, pn)
       IN  Apply(IF stop_is_clear(World, id)
                 THEN [w1 EXCEPT !.tasks[id].parts[pn + 1].status = ERROR]
                 ELSE w1)
    /\ UNCHANGED <<now, next_id, qp, dequeued, calls, lock_vars>>

(***************************************************************************)
(* The monitor thread, DownloadEngine._monitor_progress.                   *)
(***************************************************************************)
MonitorStep(id, merge_ok) ==
    /\ id \in monitors
    /\ monitor_iteration(World, id, merge_ok) # World
    /\ Apply(monitor_iteration(World, id, merge_ok))
    /\ UNCHANGED <<now, next_id, qp, dequeued, calls, lock_vars>>

PartNumbers == 0..(max_threads_per_download - 1)

Next ==
    \/ \E url \in Urls \cup {InvalidUrl}, direct_url \in DirectUrls,
          scheduled_time \in ScheduledTimes, priority \in Priorities :
          AddDownload(url, direct_url, scheduled_time, priority)
    \/ \E id \in Ids : StartDownload(id)
    \/ \E id \in Ids : PauseDownload(id)
    \/ \E id \in Ids : ResumeDownload(id)
    \/ \E id \in Ids : CancelDownload(id)
    \/ \E id \in Ids : DeleteDownload(id)
    \/ \E id \in Ids : RetryDownload(id)
    \/ QpCheck
    \/ QpTimeout
    \/ \E env \in StartEnvs : QpStart(env)
    \/ QpAdd
    \/ Tick
    \/ SchedulerRelease
    \/ \E id \in Ids, pn \in PartNumbers, flush \in BOOLEAN : WorkerChunk(id, pn, flush)
    \/ \E id \in Ids, pn \in PartNumbers : WorkerFinish(id, pn)
    \/ \E id \in Ids, pn \in PartNumbers : WorkerFail(id, pn)
    \/ \E id \in Ids, merge_ok \in BOOLEAN : MonitorStep(id, merge_ok)

Spec == Init /\ [][Next]_vars

(***************************************************************************)
(* One download that fails and is retried: add_download once, then the     *)
(* queue processor, the engine's threads and retry_download, as often as   *)
(* the code allows.                                                        *)
(***************************************************************************)
RetryAdd(url) ==
    /\ next_id = 1
    /\ AddDownload(url, NoUrl, NoTime, 0)

\* a retry_download call that is accepted
RetryAgain(id) ==
    /\ retry_download(World, id).ret = "True"
    /\ Apply(retry_download(World, id).w)
    /\ UNCHANGED <<now, next_id, qp, dequeued, calls, lock_vars>>

RetryNext ==
    \/ \E url \in Urls : RetryAdd(url)
    \/ RetryAgain(1)
    \/ QpCheck
    \/ QpTimeout
    \/ \E env \in StartEnvs : QpStart(env)
    \/ QpAdd
    \/ \E pn \in PartNumbers, flush \in BOOLEAN : WorkerChunk(1, pn, flush)
    \/ \E pn \in PartNumbers : WorkerFinish(1, pn)
    \/ \E pn \in PartNumbers : WorkerFail(1, pn)
    \/ \E merge_ok \in BOOLEAN : MonitorStep(1, merge_ok)

SpecRetry == Init /\ [][RetryNext]_vars

(***************************************************************************)
(* Startup: DownloadManager.__init__ on the store a previous process left.  *)
(***************************************************************************)
BootIds == 1..MaxBootTasks

\* DownloadTask.is_scheduled
is_scheduled(t, time) == t.scheduled_time # NoTime /\ t.scheduled_time > time

\* DownloadManager._load_downloads: the loop over the tasks loaded
RECURSIVE load_downloads(_, _, _)
load_downloads(w, downloads, time) ==
    IF downloads = <<>> THEN w
    ELSE LET id == Head(downloads).id
             w1 == [w EXCEPT !.all_downloads = @ \cup {id},
                             !.tasks = DictSet(@, id, Head(downloads).task)]
             w2 == IF w1.tasks[id].status = DOWNLOADING
                   THEN save_download([w1 EXCEPT !.tasks[id].status = PAUSED], id)
                   ELSE w1
             w3 == IF is_scheduled(w2.tasks[id], time)
                   THEN schedule_download(w2, id, time).w
                   ELSE w2
         IN  load_downloads(w3, Tail(downloads), time)

\* the url of the task a previous process created with this id
BootUrl(id) == IF id = 1 THEN "http://h/a.bin" ELSE "http://h/b.bin"

\* the rows a previous process can have left for a task
BootRows ==
    {row_of(to_dict([NewTask(BootUrl(id), scheduled_time, 0)
                        EXCEPT !.status = status])) :
        id \in BootIds, scheduled_time \in {NoTime} \cup (1..MaxBootTime),
        status \in DownloadStatus}

\* the contents of table downloads a previous process can have left
BootStores ==
    UNION {{f \in [S -> BootRows] : \A id \in S : f[id].url = BootUrl(id)} :
              S \in SUBSET BootIds}

InitBoot ==
    /\ all_downloads = {}
    /\ tasks = EmptyDict
    /\ download_queue = <<>>
    /\ active_downloads = {}
    /\ scheduled_downloads = <<>>
    /\ db_downloads \in BootStores
    /\ db_parts = EmptyDict
    /\ engine_active = {}
    /\ download_threads = {}
    /\ stop_events = EmptyDict
    /\ workers = {}
    /\ monitors = {}
    /\ temp_files = EmptyDict
    /\ final_files = EmptyDict
    /\ now \in 0..MaxBootTime
    /\ next_id = 1
    /\ qp = [pc |-> "check", task |-> NoTask]
    /\ dequeued = <<>>
    /\ calls = 0
    /\ db_lock = "free"
    /\ scheduler_lock = "free"
    /\ boot = [pc |-> "load"]
    /\ resched = [pc |-> "idle"]
    /\ released = <<>>
    /\ adding = [thread \in AddThreads |-> NoUrl]

\* __init__ line 61: _load_downloads(), as far as it gets
BootLoadDownloads ==
    /\ boot.pc = "load"
    /\ lock_is_free(db_lock)
    /\ LET r == load_all_downloads(World)
       IN  IF r.pc = "returned"
           THEN /\ Apply(load_downloads(World, r.downloads, now))
                /\ boot' = [pc |-> "start"]
                /\ UNCHANGED db_lock
           ELSE /\ boot' = [pc |-> r.pc]
                /\ db_lock' = "load_all_downloads"
                /\ UNCHANGED world_vars
    /\ UNCHANGED <<now, next_id, qp, dequeued, calls, scheduler_lock, resched,
                   released, adding>>

\* __init__ line 64: start(), which ends the construction
BootStart ==
    /\ boot.pc = "start"
    /\ boot' = [pc |-> "done"]
    /\ UNCHANGED <<world_vars, now, next_id, qp, dequeued, calls, db_lock,
                   scheduler_lock, resched, released, adding>>

BootNext == BootLoadDownloads \/ BootStart

SpecBoot == InitBoot /\ [][BootNext]_vars

(***************************************************************************)
(* The plan of the parts alone: a task whose size and range support the     *)
(* server has reported, then _setup_download's plan for it.                 *)
(***************************************************************************)
\* the sizes a server reports: around the multiples of 1 MiB
PlanSizes ==
    {size \in {k * OneMiB + d : k \in 0..MaxPlanMiB, d \in {-1, 0, 1, 7, OneMiB \div 2}} :
        size > 0}

\* a task as start_download has it after _get_file_info
PlanFileInfo(file_size, supports_range) ==
    /\ next_id = 1
    /\ tasks' = DictSet(tasks, next_id,
                        [NewTask(CHOOSE u \in Urls : TRUE, NoTime, 0)
                            EXCEPT !.file_size = file_size,
                                   !.supports_range_requests = supports_range])
    /\ next_id' = next_id + 1
    /\ UNCHANGED <<all_downloads, download_queue, active_downloads,
                   scheduled_downloads, db_downloads, db_parts, engine_active,
                   download_threads, stop_events, workers, monitors, temp_files,
                   final_files, now, qp, dequeued, calls, lock_vars>>

\* _setup_download, lines 179-186: the number of threads and the parts
PlanSetup(id) ==
    /\ id \in DOMAIN tasks
    /\ tasks[id].parts = <<>>
    /\ tasks' = [tasks EXCEPT ![id] =
                    setup_multithread_download(@, num_threads_for(@), @.file_size)]
    /\ UNCHANGED <<all_downloads, download_queue, active_downloads,
                   scheduled_downloads, db_downloads, db_parts, engine_active,
                   download_threads, stop_events, workers, monitors, temp_files,
                   final_files, now, next_id, qp, dequeued, calls, lock_vars>>

PlanNext ==
    \/ \E file_size \in PlanSizes, supports_range \in BOOLEAN :
          PlanFileInfo(file_size, supports_range)
    \/ PlanSetup(1)

SpecPlan == Init /\ [][PlanNext]_vars

(***************************************************************************)
(* The scheduler alone: tasks handed to schedule_download, the calls of     *)
(* its interface and the steps of _scheduler_loop, in any order.  A call    *)
(* runs under the scheduler's lock, so it is one step, and no step that     *)
(* needs the lock is taken while a blocked thread holds it.                 *)
(***************************************************************************)
SchedIds == 1..MaxSchedTasks
SchedTimes == {NoTime} \cup (0..MaxSchedTime)

\* a new DownloadTask with this scheduled_time, handed to schedule_download
SchedSchedule(scheduled_time) ==
    /\ lock_is_free(scheduler_lock)
    /\ next_id <= MaxSchedTasks
    /\ LET id == next_id
           url == CHOOSE u \in Urls : TRUE
           w0 == [World EXCEPT !.tasks = DictSet(@, id, NewTask(url, scheduled_time, 0))]
       IN  Apply(schedule_download(w0, id, now).w)
    /\ next_id' = next_id + 1
    /\ UNCHANGED <<now, qp, dequeued, calls, lock_vars>>

SchedUnschedule(id) ==
    /\ lock_is_free(scheduler_lock)
    /\ Apply(unschedule_download(World, id).w)
    /\ UNCHANGED <<now, next_id, qp, dequeued, calls, lock_vars>>

SchedCleanup(max_age) ==
    /\ lock_is_free(scheduler_lock)
    /\ Apply(cleanup_old_schedules(World, max_age, now).w)
    /\ UNCHANGED <<now, next_id, qp, dequeued, calls, lock_vars>>

SchedClearAll ==
    /\ lock_is_free(scheduler_lock)
    /\ Apply(clear_all_schedules(World).w)
    /\ UNCHANGED <<now, next_id, qp, dequeued, calls, lock_vars>>

\* a reschedule_download call: it returns, or its thread stays where it is
\* blocked, holding the lock
SchedReschedule(id, new_time) ==
    /\ lock_is_free(scheduler_lock)
    /\ LET r == reschedule_download(World, id, new_time, now)
       IN  /\ Apply(r.w)
           /\ scheduler_lock' = IF r.pc = "returned" THEN "free"
                                ELSE "reschedule_download"
           /\ resched' = [pc |-> IF r.pc = "returned" THEN "idle" ELSE r.pc]
    /\ UNCHANGED <<now, next_id, qp, dequeued, calls, db_lock, boot, released, adding>>

SchedTick ==
    /\ now < MaxSchedTime
    /\ now' = now + 1
    /\ UNCHANGED <<world_vars, next_id, qp, dequeued, calls, lock_vars>>

\* one pass of _scheduler_loop that finds the first entry due
SchedRelease ==
    /\ lock_is_free(scheduler_lock)
    /\ scheduled_downloads # <<>>
    /\ heappop_item(scheduled_downloads).scheduled_time <= now
    /\ LET item == heappop_item(scheduled_downloads)
           w1 == [World EXCEPT !.scheduled_downloads = heappop_rest("schedule", @)]
       IN  /\ Apply(queue_download(w1, item.task))
           /\ released' = Append(released, [task |-> item.task,
                                            scheduled_time |-> item.scheduled_time,
                                            at |-> now])
    /\ UNCHANGED <<now, next_id, qp, dequeued, calls, db_lock, scheduler_lock,
                   boot, resched, adding>>

SchedNext ==
    \/ \E scheduled_time \in SchedTimes : SchedSchedule(scheduled_time)
    \/ \E id \in SchedIds : SchedUnschedule(id)
    \/ \E max_age \in 0..MaxAge : SchedCleanup(max_age)
    \/ SchedClearAll
    \/ \E id \in SchedIds, new_time \in 1..MaxSchedTime : SchedReschedule(id, new_time)
    \/ SchedTick
    \/ SchedRelease

SpecSched == Init /\ [][SchedNext]_vars

\* the scheduler thread and the clock keep running
SpecSchedFair == SpecSched /\ WF_vars(SchedRelease) /\ WF_vars(SchedTick)

(***************************************************************************)
(* Two downloads of files with one name: add_download for the first URL    *)
(* and for the mirror, then the queue processor and the engine's threads.  *)
(***************************************************************************)
SameNameUrls == {"http://h/a.bin", MirrorUrl}

SameNameAdd(url) == AddDownload(url, NoUrl, NoTime, 0)

SameNameNext ==
    \/ \E url \in SameNameUrls : SameNameAdd(url)
    \/ QpCheck
    \/ QpTimeout
    \/ \E env \in StartEnvs : QpStart(env)
    \/ QpAdd
    \/ \E id \in Ids, pn \in PartNumbers, flush \in BOOLEAN : WorkerChunk(id, pn, flush)
    \/ \E id \in Ids, pn \in PartNumbers : WorkerFinish(id, pn)
    \/ \E id \in Ids, pn \in PartNumbers : WorkerFail(id, pn)
    \/ \E id \in Ids, merge_ok \in BOOLEAN : MonitorStep(id, merge_ok)

SpecSameName == Init /\ [][SameNameNext]_vars

(***************************************************************************)
(* Downloads from servers that do not answer as get_file_info lets the     *)
(* engine expect: add_download, then the queue processor and the engine's  *)
(* threads.                                                                *)
(***************************************************************************)
OddServerUrls == {RangeIgnoredUrl, NoLengthUrl}

OddServerAdd(url) == AddDownload(url, NoUrl, NoTime, 0)

OddServerNext ==
    \/ \E url \in OddServerUrls : OddServerAdd(url)
    \/ QpCheck
    \/ QpTimeout
    \/ \E env \in StartEnvs : QpStart(env)
    \/ QpAdd
    \/ \E id \in Ids, pn \in PartNumbers, flush \in BOOLEAN : WorkerChunk(id, pn, flush)
    \/ \E id \in Ids, pn \in PartNumbers : WorkerFinish(id, pn)
    \/ \E id \in Ids, pn \in PartNumbers : WorkerFail(id, pn)
    \/ \E id \in Ids, merge_ok \in BOOLEAN : MonitorStep(id, merge_ok)

SpecOddServer == Init /\ [][OddServerNext]_vars

(***************************************************************************)
(* One download that is paused and resumed: add_download once, then        *)
(* pause_download and resume_download at any moment, the queue processor   *)
(* and the engine's threads.                                               *)
(***************************************************************************)
PauseResumeNext ==
    \/ \E url \in Urls : RetryAdd(url)
    \/ PauseDownload(1)
    \/ ResumeDownload(1)
    \/ QpCheck
    \/ QpTimeout
    \/ \E env \in StartEnvs : QpStart(env)
    \/ QpAdd
    \/ \E pn \in PartNumbers, flush \in BOOLEAN : WorkerChunk(1, pn, flush)
    \/ \E pn \in PartNumbers : WorkerFinish(1, pn)
    \/ \E pn \in PartNumbers : WorkerFail(1, pn)
    \/ \E merge_ok \in BOOLEAN : MonitorStep(1, merge_ok)

SpecPauseResume == Init /\ [][PauseResumeNext]_vars

\* the queue processor, the part threads and the monitor thread keep running
SpecPauseResumeFair ==
    /\ SpecPauseResume
    /\ WF_vars(QpCheck)
    /\ WF_vars(QpTimeout)
    /\ WF_vars(\E env \in StartEnvs : QpStart(env))
    /\ WF_vars(QpAdd)
    /\ WF_vars(\E pn \in PartNumbers, flush \in BOOLEAN : WorkerChunk(1, pn, flush))
    /\ WF_vars(\E pn \in PartNumbers : WorkerFinish(1, pn))
    /\ WF_vars(\E merge_ok \in BOOLEAN : MonitorStep(1, merge_ok))

(***************************************************************************)
(* add_download called by several threads at once.  The call takes the     *)
(* manager's lock for the duplicate check and releases it; the task is     *)
(* created and registered afterwards.                                      *)
(***************************************************************************)
\* add_download up to the end of _is_duplicate_url, both checks passed
AddCheck(thread, url) ==
    /\ adding[thread] = NoUrl
    /\ validators_url(url)
    /\ ~is_duplicate_url(World, url)
    /\ adding' = [adding EXCEPT ![thread] = url]
    /\ UNCHANGED <<world_vars, now, next_id, qp, dequeued, calls, db_lock,
                   scheduler_lock, boot, resched, released>>

\* the rest of add_download
AddCreate(thread) ==
    /\ adding[thread] # NoUrl
    /\ next_id <= MaxTasks
    /\ Apply(add_download_create(World, adding[thread], NoUrl, NoTime, 0,
                                 next_id, now).w)
    /\ next_id' = next_id + 1
    /\ adding' = [adding EXCEPT ![thread] = NoUrl]
    /\ UNCHANGED <<now, qp, dequeued, calls, db_lock, scheduler_lock, boot,
                   resched, released>>

AddThreadsNext ==
    \/ \E thread \in AddThreads, url \in Urls : AddCheck(thread, url)
    \/ \E thread \in AddThreads : AddCreate(thread)
    \/ QpCheck
    \/ QpTimeout
    \/ \E env \in StartEnvs : QpStart(env)
    \/ QpAdd
    \/ \E id \in Ids, pn \in PartNumbers, flush \in BOOLEAN : WorkerChunk(id, pn, flush)
    \/ \E id \in Ids, pn \in PartNumbers : WorkerFinish(id, pn)
    \/ \E id \in Ids, pn \in PartNumbers : WorkerFail(id, pn)
    \/ \E id \in Ids, merge_ok \in BOOLEAN : MonitorStep(id, merge_ok)

SpecAddThreads == Init /\ [][AddThreadsNext]_vars

(***************************************************************************)
(* The priority queue alone: put as _queue_download calls it, get as       *)
(* _process_queue calls it, in any order.  Entries are numbered in the     *)
(* order they are put; the log keeps, for each entry returned, how many    *)
(* entries had been put by then.                                           *)
(***************************************************************************)
QueuePriorities == {0, 5, 10}

\* _queue_download: QueuedDownload(task.priority, task); download_queue.put(...)
QueuePut(priority) ==
    /\ next_id <= MaxQueueOps
    /\ download_queue' = heappush("queue", download_queue,
                                  [priority |-> priority, task |-> next_id])
    /\ next_id' = next_id + 1
    /\ UNCHANGED <<all_downloads, tasks, active_downloads, scheduled_downloads,
                   db_downloads, db_parts, engine_active, download_threads,
                   stop_events, workers, monitors, temp_files, final_files,
                   now, qp, dequeued, calls, lock_vars>>

\* _process_queue: queued_download = self.download_queue.get(timeout=1.0)
QueueGet ==
    /\ download_queue # <<>>
    /\ dequeued' = Append(dequeued,
                          [priority |-> heappop_item(download_queue).priority,
                           task |-> heappop_item(download_queue).task,
                           at |-> next_id])
    /\ download_queue' = heappop_rest("queue", download_queue)
    /\ UNCHANGED <<all_downloads, tasks, active_downloads, scheduled_downloads,
                   db_downloads, db_parts, engine_active, download_threads,
                   stop_events, workers, monitors, temp_files, final_files,
                   now, next_id, qp, calls, lock_vars>>

QueueNext == (\E priority \in QueuePriorities : QueuePut(priority)) \/ QueueGet

SpecQueue == Init /\ [][QueueNext]_vars

\* the entries in the queue, as a set
Queued == {download_queue[i] : i \in 1..Len(download_queue)}

\* entry y was in the queue when the i-th get returned
PresentAt(i, y) ==
    /\ y.task < dequeued[i].at
    /\ \/ y \in Queued
       \/ \E j \in (i + 1)..Len(dequeued) :
             dequeued[j].task = y.task /\ dequeued[j].priority = y.priority

LaterOrQueued(i) ==
    Queued \cup {[priority |-> dequeued[j].priority, task |-> dequeued[j].task] :
                     j \in (i + 1)..Len(dequeued)}

\* the tasks 1..3 in the order they were dequeued
RECURSIVE FirstThree(_)
FirstThree(log) ==
    IF log = <<>> THEN <<>>
    ELSE IF Head(log).task <= 3
         THEN <<Head(log).task>> \o FirstThree(Tail(log))
         ELSE FirstThree(Tail(log))

IsPrefix(s, t) == Len(s) <= Len(t) /\ SubSeq(t, 1, Len(s)) = s

\* A (priority 0), B (10), C (5) were put in that order before the first get
ScenarioABC ==
    /\ dequeued # <<>>
    /\ dequeued[1].at >= 4
    /\ \A e \in Queued \cup LaterOrQueued(0) :
          /\ e.task = 1 => e.priority = 0
          /\ e.task = 2 => e.priority = 10
          /\ e.task = 3 => e.priority = 5

\* C2: every entry the queue processor dequeues has a priority at least that
\* of every entry in the queue at that moment; and A (0), B (10), C (5), put
\* in that order before any get, are dequeued in the order B, C, A.
C2_PriorityOrder ==
    /\ \A i \in 1..Len(dequeued) : \A y \in LaterOrQueued(i) :
          PresentAt(i, y) => dequeued[i].priority >= y.priority
    /\ ScenarioABC => IsPrefix(FirstThree(dequeued), <<2, 3, 1>>)

C2_Witness ==
    /\ ScenarioABC
    /\ FirstThree(dequeued) = <<2, 3, 1>>
    /\ Len(dequeued) = 3

\* C3: of two entries of equal priority that are in the queue together, the
\* one put first is dequeued first.
C3_FifoAmongEqual ==
    \A i \in 1..Len(dequeued) : \A y \in LaterOrQueued(i) :
        (PresentAt(i, y) /\ y.priority = dequeued[i].priority)
            => dequeued[i].task < y.task

(***************************************************************************)
(* Properties of the manager, checked under Spec.                          *)
(***************************************************************************)
Downloading == {id \in DOMAIN tasks : tasks[id].status = DOWNLOADING}

\* the registered tasks with this URL that are neither Completed nor Cancelled
Unfinished(url) ==
    {id \in all_downloads :
        tasks[id].url = url /\ tasks[id].status \notin {COMPLETED, CANCELLED}}

\* the entries of a queue that name a task
EntriesOf(queue, id) == {i \in 1..Len(queue) : queue[i].task = id}

\* C1: in every reachable state the number of tasks whose status is
\* Downloading is at most max_concurrent_downloads.
C1_AtMostMaxConcurrent == Cardinality(Downloading) <= max_concurrent_downloads

C1_Witness ==
    /\ Cardinality(Downloading) = max_concurrent_downloads
    /\ Downloading \subseteq active_downloads
    /\ \E id \in all_downloads :
          tasks[id].status = QUEUED /\ EntriesOf(download_queue, id) # {}

\* C4: add of a valid URL is rejected exactly when a registered task has that
\* URL and is neither Completed nor Cancelled; an add that is not rejected
\* registers a new task with that URL.
C4_RejectedIffUnfinishedDuplicate ==
    \A url \in Urls, scheduled_time \in ScheduledTimes, priority \in Priorities :
        LET r == add_download(World, url, NoUrl, scheduled_time, priority,
                              next_id, now)
        IN  /\ r.ret = "None" <=> Unfinished(url) # {}
            /\ r.ret = "task" =>
                  /\ r.w.all_downloads = all_downloads \cup {next_id}
                  /\ next_id \notin all_downloads
                  /\ r.w.tasks[next_id].url = url

\* a URL was added, its task cancelled, and the URL added again: two
\* registered tasks share it, and a further add of it would be rejected
C4_Witness ==
    \E a \in all_downloads, b \in all_downloads :
        /\ a < b
        /\ tasks[a].url = tasks[b].url
        /\ tasks[a].status = CANCELLED
        /\ tasks[b].status \notin {COMPLETED, CANCELLED}
        /\ add_download(World, tasks[a].url, NoUrl, NoTime, 0, next_id, now).ret
               = "None"

\* C5: an add of an invalid URL, or of a URL that a registered unfinished task
\* has, returns no task and leaves the registry, the queue, the scheduler
\* heap, the active set and the store as they were.
C5_RejectedAddChangesNothing ==
    \A url \in Urls \cup {InvalidUrl}, scheduled_time \in ScheduledTimes,
       priority \in Priorities :
        LET r == add_download(World, url, NoUrl, scheduled_time, priority,
                              next_id, now)
        IN  (url = InvalidUrl \/ Unfinished(url) # {}) =>
                /\ r.ret = "None"
                /\ r.w.all_downloads = all_downloads
                /\ r.w.tasks = tasks
                /\ r.w.download_queue = download_queue
                /\ r.w.scheduled_downloads = scheduled_downloads
                /\ r.w.active_downloads = active_downloads
                /\ r.w.db_downloads = db_downloads
                /\ r.w.db_parts = db_parts

\* a state in which both kinds of add are rejected
C5_Witness ==
    /\ \E url \in Urls : Unfinished(url) # {}
          /\ add_download(World, url, NoUrl, NoTime, 0, next_id, now).ret = "None"
    /\ add_download(World, InvalidUrl, NoUrl, NoTime, 0, next_id, now).ret = "None"
    /\ download_queue # <<>>

\* C6: every change of a task's status is a step of the lifecycle Pending,
\* Queued, Downloading, then Completed, Paused, Error or Cancelled, with
\* Paused to Queued and Error to Pending; the formula states the clause all of
\* it rests on: a task that is Completed or Cancelled keeps that status.
C6_CompletedCancelledNeverLeft ==
    [][\A id \in DOMAIN tasks :
          tasks[id].status \in {COMPLETED, CANCELLED} =>
              tasks'[id].status = tasks[id].status]_vars

\* C7: when the queue processor pops a task that is Cancelled or Completed,
\* the task's status stays, no worker and no temp file is created, and the
\* processor does not go on to add it to active.
C7_PoppedCancelledIsSkipped ==
    [][(/\ qp.pc = "get"
        /\ qp'.pc # "get"
        /\ download_queue # <<>>
        /\ tasks[heappop_item(download_queue).task].status \in
               {CANCELLED, COMPLETED})
       => LET id == heappop_item(download_queue).task
          IN  /\ tasks'[id].status = tasks[id].status
              /\ workers' = workers
              /\ temp_files' = temp_files
              /\ qp'.pc # "add"]_vars

\* the call put one entry for the task into the queue, which now holds
\* exactly one, and left the task Queued
EnqueuedOnce(r, id) ==
    /\ r.ret = "True"
    /\ r.w.tasks[id].status = QUEUED
    /\ Len(r.w.download_queue) = Len(download_queue) + 1
    /\ Cardinality(EntriesOf(r.w.download_queue, id)) = 1

\* C8: start(id) enqueues the task once and sets it Queued if it is Pending
\* or Paused, resume(id) if it is Paused; for any other status or an unknown
\* id they return false and change nothing.
C8_StartResumeEnqueueOnce ==
    \A id \in Ids :
        LET known == id \in all_downloads
            s == start_download(World, id)
            r == resume_download(World, id)
        IN  /\ IF known /\ tasks[id].status \in {PENDING, PAUSED}
               THEN EnqueuedOnce(s, id)
               ELSE s.ret = "False" /\ s.w = World
            /\ IF known /\ tasks[id].status = PAUSED
               THEN EnqueuedOnce(r, id)
               ELSE r.ret = "False" /\ r.w = World

\* a task that was started, paused and then started or resumed: it is Queued
\* with its parts planned, was never retried, and has one entry in the queue
C8_Witness ==
    \E id \in all_downloads :
        /\ tasks[id].status = QUEUED
        /\ tasks[id].parts # <<>>
        /\ tasks[id].retry_count = 0
        /\ Cardinality(EntriesOf(download_queue, id)) = 1
        /\ start_download(World, id).ret = "False"

C10_CancelStopsAndDeletes ==
    \A id \in Ids :
        (id \in all_downloads /\ tasks[id].status = DOWNLOADING) =>
            LET r == cancel_download(World, id)
            IN  /\ r.ret = "True"
                /\ \A x \in r.w.workers : x[1] # id
                /\ PartPaths(tasks[id]) \cap DOMAIN r.w.temp_files = {}
                /\ r.w.tasks[id].status = CANCELLED
                /\ id \notin r.w.active_downloads

\* a task cancelled while its engine download was running: the monitor has
\* not yet seen it, and no part file is left
C10_Witness ==
    \E id \in all_downloads :
        /\ tasks[id].status = CANCELLED
        /\ id \in engine_active
        /\ id \in monitors
        /\ PartPaths(tasks[id]) # {}
        /\ PartPaths(tasks[id]) \cap DOMAIN temp_files = {}
        /\ \A x \in workers : x[1] # id
        /\ id \notin active_downloads

\* C11: retry(id) on an Error task with retry_count < max_retries adds one to
\* retry_count, clears the error and enqueues the task; in every other case
\* it returns false and changes nothing; retry_count never exceeds
\* max_retries.
C11_RetryCountsAndEnqueues ==
    /\ \A id \in Ids :
          LET r == retry_download(World, id)
          IN  IF /\ id \in all_downloads
                 /\ tasks[id].status = ERROR
                 /\ tasks[id].retry_count < max_retries
              THEN /\ r.ret = "True"
                   /\ r.w.tasks[id].retry_count = tasks[id].retry_count + 1
                   /\ r.w.tasks[id].error_message = ""
                   /\ r.w.tasks[id].status = QUEUED
                   /\ Len(r.w.download_queue) = Len(download_queue) + 1
                   /\ Cardinality(EntriesOf(r.w.download_queue, id)) =
                          Cardinality(EntriesOf(download_queue, id)) + 1
              ELSE r.ret = "False" /\ r.w = World
    /\ \A id \in DOMAIN tasks : tasks[id].retry_count <= max_retries

\* a task retried max_retries times that failed again: a further retry is
\* refused
C11_Witness ==
    \E id \in all_downloads :
        /\ tasks[id].status = ERROR
        /\ tasks[id].retry_count = max_retries
        /\ retry_download(World, id).ret = "False"

\* the ids of the tasks that were registered and then deleted
Deleted == (1..(next_id - 1)) \ all_downloads

\* C12: after delete(id) has returned, the id is absent from the registry,
\* from the active set and from the store (its row and its part rows).
C12_DeletedIsGone ==
    \A id \in Deleted :
        /\ id \notin active_downloads
        /\ id \notin DOMAIN db_downloads
        /\ id \notin DOMAIN db_parts

\* how often an entry occurs in a heap list
CountIn(x, e) == Cardinality({i \in 1..Len(x) : x[i] = e})

\* C15: schedule(task) returns false and leaves the heap unchanged when the
\* task has no scheduled_time or one that is not later than now; otherwise it
\* returns true and the heap gains exactly one entry, for the task at that time.
C15_ScheduleChecksTime ==
    \A id \in DOMAIN tasks :
        LET t == tasks[id]
            r == schedule_download(World, id, now)
            entry == [scheduled_time |-> t.scheduled_time, task |-> id]
            old == scheduled_downloads
            new == r.w.scheduled_downloads
        IN  IF t.scheduled_time = NoTime \/ t.scheduled_time <= now
            THEN ~r.ok /\ r.w = World
            ELSE /\ r.ok
                 /\ Len(new) = Len(old) + 1
                 /\ CountIn(new, entry) = CountIn(old, entry) + 1
                 /\ \A i \in 1..Len(old) :
                        old[i] # entry => CountIn(new, old[i]) = CountIn(old, old[i])
                 /\ r.w = [World EXCEPT !.scheduled_downloads = new]

\* one task is held in the heap for a later time, another was refused
C15_Witness ==
    \E id, other \in DOMAIN tasks :
        /\ tasks[id].scheduled_time > now
        /\ CountIn(scheduled_downloads,
                   [scheduled_time |-> tasks[id].scheduled_time, task |-> id]) = 1
        /\ tasks[other].scheduled_time <= now
        /\ ScheduledAt(World, other) = {}
        /\ released = <<>>

\* C16: the scheduler never releases a task early.  _scheduler_loop calls
\* start_callback, which puts the task in the priority queue, in the step
\* that pops the entry, so the claim is: a task whose scheduled_time is still
\* ahead has no entry in the priority queue and is not Downloading.
C16_NeverReleasedEarly ==
    \A id \in DOMAIN tasks :
        (tasks[id].scheduled_time # NoTime /\ tasks[id].scheduled_time > now)
            => /\ EntriesOf(download_queue, id) = {}
               /\ tasks[id].status # DOWNLOADING
               /\ id \notin active_downloads
               /\ id \notin engine_active

\* a task added for a later time waits in the scheduler's heap
C16_Witness ==
    \E id \in all_downloads :
        /\ tasks[id].scheduled_time # NoTime
        /\ tasks[id].scheduled_time > now
        /\ ScheduledAt(World, id) # {}
        /\ tasks[id].status = QUEUED

\* C17: releases happen earliest first: the scheduler never releases an entry
\* while another entry with a strictly earlier scheduled_time is in the heap,
\* for any interleaving of schedule, unschedule and cleanup calls.
C17_EarliestFirst ==
    [][Len(released') > Len(released)
          => \A i \in 1..Len(scheduled_downloads) :
                 scheduled_downloads[i].scheduled_time >=
                     released'[Len(released')].scheduled_time]_vars

\* an entry was released while a later one stayed in the heap, after an entry
\* had been taken out of the heap by unschedule or cleanup
C17_Witness ==
    /\ released # <<>>
    /\ scheduled_downloads # <<>>
    /\ \A i \in 1..Len(scheduled_downloads) :
           scheduled_downloads[i].scheduled_time >
               released[Len(released)].scheduled_time
    /\ \E id \in DOMAIN tasks :
           /\ tasks[id].scheduled_time > 1
           /\ ScheduledAt(World, id) = {}
           /\ \A i \in 1..Len(released) : released[i].task # id

\* C19: reschedule(task_id, new_time) for a task in the heap and a new_time
\* later than now terminates, returns true and leaves exactly one heap entry
\* for the task, at new_time; for an id not in the heap it returns false and
\* leaves the heap unchanged.
C19_RescheduleMovesEntry ==
    \A id \in SchedIds, new_time \in 1..MaxSchedTime :
        (lock_is_free(scheduler_lock) /\ new_time > now) =>
            LET r == reschedule_download(World, id, new_time, now)
            IN  IF ScheduledAt(World, id) # {}
                THEN /\ r.pc = "returned"
                     /\ r.ok
                     /\ Cardinality(ScheduledAt(r.w, id)) = 1
                     /\ \A i \in ScheduledAt(r.w, id) :
                            r.w.scheduled_downloads[i].scheduled_time = new_time
                ELSE /\ r.pc = "returned"
                     /\ ~r.ok
                     /\ r.w.scheduled_downloads = scheduled_downloads

\* C18: while the scheduler runs and time advances, every entry that is
\* scheduled and not unscheduled or cleared is eventually popped and handed
\* to the release callback, exactly once (the entry leaves the heap, and no
\* task is released twice).
C18_EventuallyReleasedOnce ==
    /\ \A id \in SchedIds :
           (ScheduledAt(World, id) # {}) ~> (ScheduledAt(World, id) = {})
    /\ [](\A i, j \in 1..Len(released) :
              released[i].task = released[j].task => i = j)

\* C13: every persistence operation takes and releases the store's lock, so
\* each call terminates: load_all() and list_by_status(s) return one task per
\* matching row for any store content, and the construction of the manager,
\* which loads all persisted tasks, is never stuck.
C13_StoreCallsTerminate ==
    /\ lock_is_free(db_lock) =>
           /\ load_all_downloads(World).pc = "returned"
           /\ Len(load_all_downloads(World).downloads) =
                  Cardinality(DOMAIN db_downloads)
           /\ \A status \in DownloadStatus :
                  /\ get_downloads_by_status(World, status).pc = "returned"
                  /\ Len(get_downloads_by_status(World, status).downloads) =
                         Cardinality({id \in DOMAIN db_downloads :
                                         db_downloads[id].status = status})
    /\ boot.pc \in {"load", "start", "done"}

\* C14: startup recovery: once the boot is over, every task stored as
\* Downloading is Paused in the registry and in the store (no row and no
\* registered task is Downloading any more), and every task whose
\* scheduled_time is in the future is held in the scheduler's heap.  The boot
\* is over when the constructing thread takes no further step.
C14_StartupRecovery ==
    boot.pc \in {"done", "load_download"} =>
        \A id \in DOMAIN db_downloads :
            /\ db_downloads[id].status # DOWNLOADING
            /\ id \in all_downloads => tasks[id].status # DOWNLOADING
            /\ is_scheduled(load_download(World, id), now)
                   => ScheduledAt(World, id) # {}

\* C20: for every file_size > 0 and every planned number of parts, the parts,
\* in the order of part_number, tile [0, file_size - 1] without gaps or
\* overlaps, and every part is non-empty.
C20_PartsTile ==
    \A id \in DOMAIN tasks :
        LET parts == tasks[id].parts
        IN  (parts # <<>> /\ tasks[id].file_size > 0) =>
                /\ \A i \in 1..Len(parts) : parts[i].part_number = i - 1
                /\ parts[1].start_byte = 0
                /\ \A i \in 1..(Len(parts) - 1) :
                       parts[i + 1].start_byte = parts[i].end_byte + 1
                /\ parts[Len(parts)].end_byte = tasks[id].file_size - 1
                /\ \A i \in 1..Len(parts) : parts[i].start_byte <= parts[i].end_byte

\* a plan of max_threads_per_download parts for a size they do not divide
C20_Witness ==
    \E id \in DOMAIN tasks :
        /\ Len(tasks[id].parts) = max_threads_per_download
        /\ tasks[id].file_size % max_threads_per_download # 0

\* the number of parts the claim gives for a task as get_file_info left it
PartCount(M, t) ==
    IF t.supports_range_requests /\ t.file_size > OneMiB
    THEN Min(M, Max(1, t.file_size \div OneMiB))
    ELSE 1

\* C21: Engine start emits exactly N parts, N = min(M, max(1, file_size div
\* 1 MiB)) if the server supports ranges and file_size > 1 MiB, and N = 1
\* otherwise, M being max_threads_per_download: for the plan a step makes,
\* and for the plan of a task not yet planned under every setting M.
C21_PartCount ==
    /\ [][\A id \in DOMAIN tasks :
              (tasks[id].parts = <<>> /\ tasks'[id].parts # <<>>)
                  => Len(tasks'[id].parts) =
                         PartCount(max_threads_per_download, tasks[id])]_vars
    /\ [](\A id \in DOMAIN tasks, M \in 1..max_threads_per_download :
              tasks[id].parts = <<>>
                  => Len(setup_multithread_download(
                             tasks[id], num_threads(M, tasks[id]),
                             tasks[id].file_size).parts) = PartCount(M, tasks[id]))

\* a 10 MiB file on a server with range support: as many parts as the
\* setting allows, four with a setting of 4
C21_Witness ==
    \E id \in DOMAIN tasks :
        /\ tasks[id].file_size = 10 * OneMiB
        /\ tasks[id].supports_range_requests
        /\ Len(tasks[id].parts) = max_threads_per_download
        /\ Len(plan_parts(num_threads(4, [tasks[id] EXCEPT !.parts = <<>>]),
                          tasks[id].file_size)) = 4

\* C24: every status transition of a task is written to the store when it
\* happens: after each step the stored status of every registered task is
\* its status in memory.
C24_StatusIsStored ==
    \A id \in all_downloads :
        /\ id \in DOMAIN db_downloads
        /\ db_downloads[id].status = tasks[id].status

\* C27: every id in the manager's active set belongs to a task whose status
\* is Downloading.
C27_ActiveAreDownloading ==
    \A id \in active_downloads : tasks[id].status = DOWNLOADING

\* C30: at any instant task.downloaded_bytes is the sum of downloaded_bytes
\* over the task's parts.
C30_BytesAreSumOfParts ==
    \A id \in DOMAIN tasks :
        tasks[id].downloaded_bytes = get_total_downloaded_bytes(tasks[id])

\* bytes stored in a part's temp file
Stored(part) ==
    IF part.temp_file_path \in DOMAIN temp_files
    THEN temp_files[part.temp_file_path] ELSE 0

\* C23: a download that is paused and resumed goes on where it stopped: a
\* worker's request counts from the bytes already stored in the part's temp
\* file, and no worker runs for a part whose temp file is already full (so
\* that the resumed download transfers no byte twice and ends Completed).
C23_ResumeContinues ==
    \A x \in workers :
        LET part == tasks[x[1]].parts[x[2] + 1]
        IN  /\ Stored(part) < PartLen(part)
            /\ part.downloaded_bytes >= Stored(part)

\* C22: a task with status Completed has downloaded_bytes = file_size, and
\* the merged file exists at destination/filename with file_size bytes.
C22_CompletedFileIsWhole ==
    \A id \in DOMAIN tasks :
        tasks[id].status = COMPLETED =>
            /\ tasks[id].downloaded_bytes = tasks[id].file_size
            /\ tasks[id].filename \in DOMAIN final_files
            /\ final_files[tasks[id].filename] = tasks[id].file_size

\* C25: persistence round trip: after save_download(t), load_download(t.id)
\* returns a task equal to t on every persisted field and on its parts, and
\* saving the loaded task again leaves the store unchanged; after
\* delete_download(t.id), which returns true, load_download(t.id) returns
\* nothing.
C25_SaveLoadRoundTrip ==
    \A id \in DOMAIN tasks :
        LET saved == save_download(World, id)
            loaded == load_download(saved, id)
            again == save_download([saved EXCEPT !.tasks[id] = loaded], id)
        IN  /\ loaded = tasks[id]
            /\ again.db_downloads = saved.db_downloads
            /\ again.db_parts = saved.db_parts
            /\ db_delete_returns(saved, id)
            /\ load_download(db_delete_download(saved, id), id) = None

\* a task with parts, on a server with range support, is in the store as it
\* is in memory
C25_Witness ==
    \E id \in all_downloads :
        /\ Len(tasks[id].parts) > 1
        /\ tasks[id].supports_range_requests
        /\ id \in DOMAIN db_parts
        /\ load_download(World, id) = tasks[id]

\* C29: a 200 answer to a ranged request is accepted only if the range asked
\* for covered the whole resource; otherwise the request fails and the part
\* becomes Error.  Here: a part asked for by range from a server answering
\* 200, the range being less than the file, never becomes Completed.
C29_FullAnswerToRangeRejected ==
    \A id \in all_downloads :
        \A k \in 1..Len(tasks[id].parts) :
            (/\ is_ranged_request(tasks[id])
             /\ RangeStatus(tasks[id].url) = 200
             /\ PartLen(tasks[id].parts[k]) < ServerFile(tasks[id].url).file_size)
            => tasks[id].parts[k].status # COMPLETED

\* C28: for every part, 0 <= downloaded_bytes <= end_byte - start_byte + 1,
\* whatever the server answers.
C28_PartBytesWithinRange ==
    \A id \in all_downloads :
        \A k \in 1..Len(tasks[id].parts) :
            /\ 0 <= tasks[id].parts[k].downloaded_bytes
            /\ tasks[id].parts[k].downloaded_bytes <= PartLen(tasks[id].parts[k])

\* C26: progress_percent is 100 * downloaded_bytes / file_size when
\* file_size > 0, and 0 when file_size is 0 or unknown, also after the task
\* has completed.
C26_ProgressPercent ==
    \A id \in all_downloads :
        tasks[id].progress_percentage =
            IF tasks[id].file_size > 0
            THEN (tasks[id].downloaded_bytes * 100) \div tasks[id].file_size
            ELSE 0

\* C31: when a part of a Downloading task is in Error and the task has no
\* retries left, the monitor sets the task to Error, removes its temp files,
\* and the status event of that transition reaches the manager: the store
\* holds the Error status and the id has left the manager's active set.
C31_ExhaustedErrorIsDelivered ==
    \A id \in all_downloads :
        (/\ tasks[id].status = ERROR
         /\ tasks[id].error_message = "Download failed after maximum retries")
        => /\ db_downloads[id].status = ERROR
           /\ id \notin active_downloads

\* C32: a Downloading task with a failed part and retries left leaves
\* Downloading and is queued again; it does not stay Downloading forever.
\* Here: no state is reached where such a task has no part thread left, its
\* monitor's iteration changes nothing and retry_download refuses the task,
\* which is a state the engine's threads never leave.
C32_FailedPartIsRetried ==
    \A id \in all_downloads :
        ~(/\ tasks[id].status = DOWNLOADING
          /\ SomePartError(tasks[id])
          /\ can_retry(tasks[id])
          /\ id \in monitors
          /\ \A x \in workers : x[1] # id
          /\ \A merge_ok \in BOOLEAN : monitor_iteration(World, id, merge_ok) = World
          /\ retry_download(World, id).ret = "False")

\* C33: under fairness, provided active downloads keep finishing (a slot of
\* max_concurrent_downloads is free again and again), every task that is
\* Queued is eventually handed to the engine and leaves Queued, also a task
\* resumed right after it was paused.
C33_QueuedIsStarted ==
    ([]<>(Cardinality(active_downloads) < max_concurrent_downloads)) =>
        \A id \in Ids :
            (id \in all_downloads /\ tasks[id].status = QUEUED)
                ~> ~(id \in all_downloads /\ tasks[id].status = QUEUED)

\* C34: the progress events delivered for one task are monotonic in
\* downloaded_bytes.  task.downloaded_bytes is written by update_progress,
\* right before the event that carries it is delivered, so between two events
\* it holds the value of the last one: no step that delivers an event (a
\* chunk arriving at a part thread) lowers it.
C34_ProgressIsMonotonic ==
    [][\A id \in all_downloads :
          (\E pn \in PartNumbers, flush \in BOOLEAN : WorkerChunk(id, pn, flush))
          => tasks'[id].downloaded_bytes >= tasks[id].downloaded_bytes]_vars

\* C35: when destination/filename exists at merge time the merge does not
\* overwrite it (the output goes to 'name (1).ext', 'name (2).ext', ...): a
\* file in the destination directory is left as it is by every step.
C35_MergeKeepsExistingFile ==
    [][\A name \in DOMAIN final_files :
          /\ name \in DOMAIN final_files'
          /\ final_files'[name] = final_files[name]]_vars

\* C36: a task whose probed file_size is 0 completes right after the probe
\* without fetching any body bytes: once started it has no part thread and
\* no bytes, and the monitor's first iteration merges an empty file at
\* destination/filename and sets the task Completed.
C36_EmptyFileCompletes ==
    \A id \in all_downloads :
        (/\ tasks[id].status = DOWNLOADING
         /\ tasks[id].file_size = 0
         /\ id \in monitors)
        => /\ \A x \in workers : x[1] # id
           /\ get_total_downloaded_bytes(tasks[id]) = 0
           /\ LET w == monitor_iteration(World, id, TRUE)
              IN  /\ w.tasks[id].status = COMPLETED
                  /\ tasks[id].filename \in DOMAIN w.final_files
                  /\ w.final_files[tasks[id].filename] = 0

\* the download from the server without Content-Length has completed with an
\* empty file
C36_Witness ==
    \E id \in all_downloads :
        /\ tasks[id].url = NoLengthUrl
        /\ tasks[id].file_size = 0
        /\ tasks[id].status = COMPLETED
        /\ "d.bin" \in DOMAIN final_files
        /\ final_files["d.bin"] = 0

\* C37: fatal errors are terminal: a task that entered Error because of
\* insufficient disk space or a disk write failure is never moved back to
\* Pending or Queued by retry(id), even when retry_count < max_retries.
C37_FatalErrorIsTerminal ==
    \A id \in all_downloads :
        (/\ tasks[id].status = ERROR
         /\ tasks[id].error_message \in {"Insufficient disk space",
                                         "Failed to complete download"})
        => /\ retry_download(World, id).ret = "False"
           /\ retry_download(World, id).w.tasks[id].status = ERROR

\* C38: with add(U) calls for one URL running concurrently at most one of
\* them creates a task: no two tasks of the registry have the same URL while
\* both have a status other than Completed or Cancelled.
C38_OneTaskPerUrl ==
    \A i, j \in all_downloads :
        (/\ i # j
         /\ tasks[i].url = tasks[j].url)
        => \/ tasks[i].status \in {COMPLETED, CANCELLED}
           \/ tasks[j].status \in {COMPLETED, CANCELLED}

\* C39: every task whose status is Queued is held in the priority queue or in
\* the scheduler's heap, or is the task the queue processor is starting, so
\* no task is left Queued with nothing that will ever start it.
C39_QueuedIsHeld ==
    \A id \in all_downloads :
        tasks[id].status = QUEUED
        => \/ \E k \in 1..Len(download_queue) : download_queue[k].task = id
           \/ ScheduledAt(World, id) # {}
           \/ qp.task = id

\* C40: after cancel(id) returns, no temp part file of the task exists,
\* whatever status the task had before the call (Downloading, Paused with
\* partially written parts, Error with retained parts, or Queued).
C40_CancelLeavesNoTempFile ==
    \A id \in all_downloads :
        LET r == cancel_download(World, id)
        IN  r.ret = "True" => \A x \in DOMAIN r.w.temp_files : x[1] # id

====
